---- MODULE Spec2Model ----
(***************************************************************************)
(* Card search of myPCGdex: the search cascade of useSearchFromVision      *)
(* (src/lib/tcg/hooks.ts), the /api/cards/search route and the catalog     *)
(* client behind it (src/lib/tcg/client.ts), the scoring helpers           *)
(* (src/lib/tcg/normalize.ts) and the query lifecycle of ResultForm        *)
(* (src/app/(protected)/scan/result-form.tsx) on top of the TanStack Query *)
(* cache.                                                                  *)
(*                                                                         *)
(* Strings are sequences of one-character strings, so that trimming,       *)
(* splitting, case folding and substring tests are computed, not assumed.  *)
(***************************************************************************)
EXTENDS Integers, Sequences, FiniteSets, TLC

(***************************************************************************)
(* String helpers (the JavaScript String methods the code calls)           *)
(***************************************************************************)

\* An optional value is a sequence of at most one element
Nothing == <<>>

Some(x) == <<x>>

IsSome(o) == o # <<>>

Get(o) == o[1]

Digits == {"0", "1", "2", "3", "4", "5", "6", "7", "8", "9"}

Whitespace == {" "}

Lowers ==
  <<"a", "b", "c", "d", "e", "f", "g", "h", "i", "j", "k", "l", "m",
    "n", "o", "p", "q", "r", "s", "t", "u", "v", "w", "x", "y", "z">>

Uppers ==
  <<"A", "B", "C", "D", "E", "F", "G", "H", "I", "J", "K", "L", "M",
    "N", "O", "P", "Q", "R", "S", "T", "U", "V", "W", "X", "Y", "Z">>

IndexIn(seq, c) == CHOOSE i \in 1..Len(seq) : seq[i] = c

IsUpper(c) == \E i \in 1..Len(Uppers) : Uppers[i] = c

\* String.prototype.toLowerCase on one character
LowerChar(c) == IF IsUpper(c) THEN Lowers[IndexIn(Uppers, c)] ELSE c

toLowerCase(s) == [i \in 1..Len(s) |-> LowerChar(s[i])]

RECURSIVE TrimStart(_)
TrimStart(s) ==
  IF s # <<>> /\ Head(s) \in Whitespace THEN TrimStart(Tail(s)) ELSE s

RECURSIVE TrimEnd(_)
TrimEnd(s) ==
  IF s # <<>> /\ s[Len(s)] \in Whitespace
    THEN TrimEnd(SubSeq(s, 1, Len(s) - 1))
    ELSE s

\* String.prototype.trim
trim(s) == TrimEnd(TrimStart(s))

\* String.prototype.includes
includes(hay, needle) ==
  \E i \in 0..(Len(hay) - Len(needle)) :
    SubSeq(hay, i + 1, i + Len(needle)) = needle

\* String.prototype.split("/"): the list of parts
RECURSIVE SplitSlash(_, _, _)
SplitSlash(s, cur, acc) ==
  IF s = <<>> THEN Append(acc, cur)
  ELSE IF Head(s) = "/" THEN SplitSlash(Tail(s), <<>>, Append(acc, cur))
  ELSE SplitSlash(Tail(s), Append(cur, Head(s)), acc)

\* A split at the first slash only
splitAtFirstSlash(s) ==
  IF \A i \in 1..Len(s) : s[i] # "/" THEN <<s>>
  ELSE LET k == CHOOSE i \in 1..Len(s) :
                  s[i] = "/" /\ \A j \in 1..(i - 1) : s[j] # "/"
       IN <<SubSeq(s, 1, k - 1), SubSeq(s, k + 1, Len(s))>>

split(s) == SplitSlash(s, <<>>, <<>>)

RECURSIVE StripZeros(_)
StripZeros(s) ==
  IF Len(s) > 1 /\ Head(s) = "0" THEN StripZeros(Tail(s)) ELSE s

\* The match with one leading zero taken off
pureNumMatchOneZero(s) ==
  IF s # <<>> /\ \A i \in 1..Len(s) : s[i] \in Digits
    THEN Some(IF Len(s) > 1 /\ Head(s) = "0" THEN Tail(s) ELSE s)
    ELSE Nothing

\* s.match(/^0*(\d+)$/): Nothing when there is no match, else capture group 1
\* (0* is greedy but must leave one digit for \d+)
pureNumMatch(s) ==
  IF s # <<>> /\ \A i \in 1..Len(s) : s[i] \in Digits
    THEN Some(StripZeros(s))
    ELSE Nothing

\* s.replace(/^0+/, ""): every leading zero goes, also the last one
RECURSIVE ReplaceLeadingZeros(_)
ReplaceLeadingZeros(s) ==
  IF s # <<>> /\ Head(s) = "0" THEN ReplaceLeadingZeros(Tail(s)) ELSE s

\* Collation order of the characters the model uses: whitespace, punctuation,
\* digits, then letters; case only breaks ties between otherwise equal strings
Collation ==
  <<" ", "-", "/", "0", "1", "2", "3", "4", "5", "6", "7", "8", "9">> \o Lowers

CharRank(c) == IndexIn(Collation, LowerChar(c))

RECURSIVE ComparePrimary(_, _)
ComparePrimary(a, b) ==
  IF a = <<>> /\ b = <<>> THEN 0
  ELSE IF a = <<>> THEN -1
  ELSE IF b = <<>> THEN 1
  ELSE IF CharRank(Head(a)) < CharRank(Head(b)) THEN -1
  ELSE IF CharRank(Head(a)) > CharRank(Head(b)) THEN 1
  ELSE ComparePrimary(Tail(a), Tail(b))

\* lower case sorts before upper case when the letters are the same
RECURSIVE CompareCase(_, _)
CompareCase(a, b) ==
  IF a = <<>> \/ b = <<>> THEN 0
  ELSE IF ~IsUpper(Head(a)) /\ IsUpper(Head(b)) THEN -1
  ELSE IF IsUpper(Head(a)) /\ ~IsUpper(Head(b)) THEN 1
  ELSE CompareCase(Tail(a), Tail(b))

\* a.localeCompare(b) as -1, 0, 1
localeCompare(a, b) ==
  IF ComparePrimary(a, b) # 0 THEN ComparePrimary(a, b) ELSE CompareCase(a, b)

DigitValue(c) == IndexIn(<<"0", "1", "2", "3", "4", "5", "6", "7", "8", "9">>, c) - 1

\* parseInt(s, 10): leading whitespace, an optional sign, then the longest
\* run of digits; Nothing for NaN
RECURSIVE ParseDigits(_, _)
ParseDigits(s, acc) ==
  IF s # <<>> /\ Head(s) \in Digits
    THEN ParseDigits(Tail(s), acc * 10 + DigitValue(Head(s)))
    ELSE acc

parseInt(s) ==
  LET t == TrimStart(s)
      signed == t # <<>> /\ Head(t) \in {"-", "+"}
      u == IF signed THEN Tail(t) ELSE t
  IN IF u # <<>> /\ Head(u) \in Digits
       THEN Some(IF signed /\ Head(t) = "-"
                   THEN 0 - ParseDigits(u, 0)
                   ELSE ParseDigits(u, 0))
       ELSE Nothing

substring(s, from, to) ==
  SubSeq(s, from + 1, IF to > Len(s) THEN Len(s) ELSE to)

(***************************************************************************)
(* normalize.ts                                                            *)
(***************************************************************************)

normalizeCardNumber(input) ==
  LET original == trim(input)
      slashParts == split(original)
  IN IF original = <<>>
       THEN [number |-> <<>>, total |-> Nothing, full |-> <<>>,
             original |-> <<>>, hasTotal |-> FALSE]
     ELSE IF Len(slashParts) = 2
       THEN LET numberPart == slashParts[1]
                totalPart == slashParts[2]
                m == pureNumMatch(numberPart)
                normalizedNum == IF IsSome(m) THEN Get(m) ELSE numberPart
            IN [number |-> normalizedNum, total |-> Some(totalPart),
                full |-> normalizedNum \o <<"/">> \o totalPart,
                original |-> original, hasTotal |-> TRUE]
     ELSE LET m == pureNumMatch(original)
          IN IF IsSome(m)
               THEN [number |-> Get(m), total |-> Nothing, full |-> Get(m),
                     original |-> original, hasTotal |-> FALSE]
               ELSE [number |-> original, total |-> Nothing, full |-> original,
                     original |-> original, hasTotal |-> FALSE]

\* numberMatch with the raw number string looked at first
numberMatchRawFirst(cardNumber, queryNumber) ==
  LET normalizedCardNumber == normalizeCardNumber(cardNumber)
  IN IF queryNumber.number # <<>>
       THEN IF includes(cardNumber, queryNumber.number) THEN 30
            ELSE IF normalizedCardNumber.number = queryNumber.number THEN 50
            ELSE IF includes(queryNumber.number, normalizedCardNumber.number)
                    \/ includes(normalizedCardNumber.number, queryNumber.number)
              THEN 20
            ELSE 0
       ELSE 0

\* numberMatch of calculateAccuracyScore; queryNumber is a NormalizedCardNumber
numberMatch(cardNumber, queryNumber) ==
  LET normalizedCardNumber == normalizeCardNumber(cardNumber)
  IN IF queryNumber.number # <<>>
       THEN IF normalizedCardNumber.number = queryNumber.number THEN 50
            ELSE IF includes(cardNumber, queryNumber.number) THEN 30
            ELSE IF includes(queryNumber.number, normalizedCardNumber.number)
                    \/ includes(normalizedCardNumber.number, queryNumber.number)
              THEN 20
            ELSE 0
       ELSE 0

\* nameMatch of calculateAccuracyScore
nameMatch(cardName, queryName) ==
  LET normalizedCardName == trim(toLowerCase(cardName))
      normalizedQueryName == trim(toLowerCase(queryName))
  IN IF queryName # <<>>
       THEN IF normalizedCardName = normalizedQueryName THEN 30
            ELSE IF includes(normalizedCardName, normalizedQueryName) THEN 15
            ELSE IF includes(normalizedQueryName, normalizedCardName) THEN 10
            ELSE 0
       ELSE 0

\* setMatch of calculateAccuracyScore; querySetId is <<>> when absent
setMatch(cardSetId, querySetId) ==
  LET normalizedCardSetId == trim(toLowerCase(cardSetId))
      normalizedQuerySetId == trim(toLowerCase(querySetId))
  IN IF querySetId # <<>>
       THEN IF normalizedCardSetId = normalizedQuerySetId THEN 25
            ELSE IF includes(normalizedCardSetId, normalizedQuerySetId)
                    \/ includes(normalizedQuerySetId, normalizedCardSetId)
              THEN 10
            ELSE 0
       ELSE 0

\* A price bonus of 5
priceBonusOfFive(hasMarketPrice) == IF hasMarketPrice THEN 5 ELSE 0

\* priceBonus of calculateAccuracyScore
priceBonus(hasMarketPrice) == IF hasMarketPrice THEN 3 ELSE 0

\* recencyBonus for the years after the thresholds only
recencyBonusAfter(cardReleaseDate, currentYear) ==
  LET releaseYear ==
        IF IsSome(cardReleaseDate) /\ Get(cardReleaseDate) # <<>>
          THEN parseInt(substring(Get(cardReleaseDate), 0, 4))
          ELSE Nothing
  IN IF ~IsSome(releaseYear) THEN 0
     ELSE IF Get(releaseYear) > currentYear - 1 THEN 2
     ELSE IF Get(releaseYear) > currentYear - 3 THEN 1
     ELSE 0

\* recencyBonus of calculateAccuracyScore; cardReleaseDate is optional (Nothing
\* when absent), currentYear is new Date().getFullYear() at the time of the
\* call; a comparison with NaN is false
recencyBonus(cardReleaseDate, currentYear) ==
  LET releaseYear ==
        IF IsSome(cardReleaseDate) /\ Get(cardReleaseDate) # <<>>
          THEN parseInt(substring(Get(cardReleaseDate), 0, 4))
          ELSE Nothing
  IN IF ~IsSome(releaseYear) THEN 0
     ELSE IF Get(releaseYear) >= currentYear - 1 THEN 2
     ELSE IF Get(releaseYear) >= currentYear - 3 THEN 1
     ELSE 0

\* Reserved for future language-based scoring
languageBonus == 0

calculateAccuracyScoreOfMatches(cardNumber, cardName, cardSetId, cardReleaseDate, hasMarketPrice, queryNumber, queryName, querySetId, currentYear) ==
  LET breakdown ==
        [numberMatch |-> numberMatch(cardNumber, queryNumber),
         nameMatch |-> nameMatch(cardName, queryName),
         setMatch |-> setMatch(cardSetId, querySetId),
         languageBonus |-> languageBonus,
         priceBonus |-> priceBonus(hasMarketPrice),
         recencyBonus |-> recencyBonus(cardReleaseDate, currentYear)]
  IN [score |-> breakdown.numberMatch + breakdown.nameMatch
                  + breakdown.setMatch,
      breakdown |-> breakdown]

calculateAccuracyScore(cardNumber, cardName, cardSetId, cardReleaseDate, hasMarketPrice, queryNumber, queryName, querySetId, currentYear) ==
  LET breakdown ==
        [numberMatch |-> numberMatch(cardNumber, queryNumber),
         nameMatch |-> nameMatch(cardName, queryName),
         setMatch |-> setMatch(cardSetId, querySetId),
         languageBonus |-> languageBonus,
         priceBonus |-> priceBonus(hasMarketPrice),
         recencyBonus |-> recencyBonus(cardReleaseDate, currentYear)]
  IN [score |-> breakdown.numberMatch + breakdown.nameMatch
                  + breakdown.setMatch + breakdown.languageBonus
                  + breakdown.priceBonus + breakdown.recencyBonus,
      breakdown |-> breakdown]

\* The comparator of sortByAccuracy with the score ascending
AccuracyCompareAscending(a, b) ==
  IF b.score # a.score THEN a.score - b.score
  ELSE IF a.releaseDate # Nothing /\ a.releaseDate # Some(<<>>)
          /\ b.releaseDate # Nothing /\ b.releaseDate # Some(<<>>)
    THEN localeCompare(Get(b.releaseDate), Get(a.releaseDate))
  ELSE 0

\* The comparator of sortByAccuracy: score descending, then release date
\* newest first when both items have one; releaseDate is optional
AccuracyCompare(a, b) ==
  IF b.score # a.score THEN b.score - a.score
  ELSE IF a.releaseDate # Nothing /\ a.releaseDate # Some(<<>>)
          /\ b.releaseDate # Nothing /\ b.releaseDate # Some(<<>>)
    THEN localeCompare(Get(b.releaseDate), Get(a.releaseDate))
  ELSE 0

\* Array.prototype.sort. The comparator is not consistent when an item
\* without a release date ties with two dated items of the same score, and
\* the order is then left to the engine: the model keeps the orders of two
\* algorithms, which agree whenever the comparator is consistent.

\* 1. An insertion sort that moves each item towards the front while it
\*    compares below its neighbour
RECURSIVE InsertFromEnd(_, _)
InsertFromEnd(sorted, x) ==
  IF sorted = <<>> THEN <<x>>
  ELSE IF AccuracyCompare(x, sorted[Len(sorted)]) < 0
    THEN Append(InsertFromEnd(SubSeq(sorted, 1, Len(sorted) - 1), x),
                sorted[Len(sorted)])
  ELSE Append(sorted, x)

RECURSIVE InsertionSort(_, _)
InsertionSort(sorted, rest) ==
  IF rest = <<>> THEN sorted
  ELSE InsertionSort(InsertFromEnd(sorted, Head(rest)), Tail(rest))

\* 2. V8's TimSort on an array shorter than its minimum run length: the
\*    leading run is counted (and reversed when strictly descending), the
\*    other items are inserted by binary search
RECURSIVE CountRun(_, _, _)
CountRun(list, isDescending, runLength) ==
  IF runLength = Len(list) THEN runLength
  ELSE LET order == AccuracyCompare(list[runLength + 1], list[runLength])
       IN IF (isDescending /\ order >= 0) \/ (~isDescending /\ order < 0)
            THEN runLength
            ELSE CountRun(list, isDescending, runLength + 1)

ReverseRange(list) == [i \in 1..Len(list) |-> list[Len(list) + 1 - i]]

\* left and right are counted from 0, as in the engine
RECURSIVE BinarySearch(_, _, _, _)
BinarySearch(sorted, pivot, left, right) ==
  IF left >= right THEN left
  ELSE LET mid == left + ((right - left) \div 2)
       IN IF AccuracyCompare(pivot, sorted[mid + 1]) < 0
            THEN BinarySearch(sorted, pivot, left, mid)
            ELSE BinarySearch(sorted, pivot, mid + 1, right)

RECURSIVE BinaryInsertionSort(_, _)
BinaryInsertionSort(sorted, rest) ==
  IF rest = <<>> THEN sorted
  ELSE LET pivot == Head(rest)
           left == BinarySearch(sorted, pivot, 0, Len(sorted))
       IN BinaryInsertionSort(
            SubSeq(sorted, 1, left) \o <<pivot>>
              \o SubSeq(sorted, left + 1, Len(sorted)),
            Tail(rest))

TimSort(list) ==
  IF Len(list) < 2 THEN list
  ELSE LET isDescending == AccuracyCompare(list[2], list[1]) < 0
           runLength == CountRun(list, isDescending, 2)
           run == IF isDescending
                    THEN ReverseRange(SubSeq(list, 1, runLength))
                    ELSE SubSeq(list, 1, runLength)
       IN BinaryInsertionSort(run, SubSeq(list, runLength + 1, Len(list)))

\* sortByAccuracy: every order the sort of a copy of cards can come out in
sortByAccuracy(cards) == {InsertionSort(<<>>, cards), TimSort(cards)}

\* setMap of extractUniqueSets: the {id, name} of the first card of each set
\* id, in the order the ids are first seen (Map keeps insertion order)
RECURSIVE setMap(_)
setMap(cards) ==
  IF cards = <<>> THEN <<>>
  ELSE LET before == setMap(SubSeq(cards, 1, Len(cards) - 1))
           card == cards[Len(cards)]
       IN IF \E i \in 1..Len(before) : before[i].id = card.set.id
            THEN before
            ELSE Append(before, [id |-> card.set.id, name |-> card.set.name])

\* The values of the map left in insertion order
InsertionOrder(sets) == sets

\* sort((a, b) => a.name.localeCompare(b.name)): stable, so a set goes after
\* every earlier set whose name is not greater
RECURSIVE SortByName(_)
SortByName(sets) ==
  IF sets = <<>> THEN <<>>
  ELSE LET before == SortByName(SubSeq(sets, 1, Len(sets) - 1))
           x == sets[Len(sets)]
           k == Cardinality({i \in 1..Len(before) :
                               localeCompare(before[i].name, x.name) <= 0})
       IN SubSeq(before, 1, k) \o <<x>> \o SubSeq(before, k + 1, Len(before))

extractUniqueSets(cards) == SortByName(setMap(cards))

(***************************************************************************)
(* client.ts: the catalog client behind the search route                   *)
(***************************************************************************)

\* name.trim().replace(/['"]/g, "")
RECURSIVE RemoveQuotes(_)
RemoveQuotes(s) ==
  IF s = <<>> THEN <<>>
  ELSE IF Head(s) \in {"'", "\""} THEN RemoveQuotes(Tail(s))
  ELSE <<Head(s)>> \o RemoveQuotes(Tail(s))

\* The Lucene query as the parts it is joined from; params.query is never
\* sent by the hooks
buildSearchQuery(params) ==
  [parts |-> {x \in {"name", "number", "setId"} : params[x] # <<>>},
   name |-> IF params.name # <<>> THEN RemoveQuotes(trim(params.name)) ELSE <<>>,
   number |-> IF params.number # <<>>
                THEN ReplaceLeadingZeros(split(trim(params.number))[1])
                ELSE <<>>,
   setId |-> IF params.setId # <<>> THEN toLowerCase(params.setId) ELSE <<>>]

\* getCardMarketPrice: holofoil, then reverseHolofoil, then normal
\* getCardMarketPrice taking a price of 0 for a missing one
getCardMarketPriceTruthy(card) ==
  IF ~IsSome(card.prices) THEN Nothing
  ELSE LET prices == Get(card.prices)
           Priced(price) == IsSome(price) /\ Get(price) # 0
       IN IF Priced(prices.holofoil) THEN prices.holofoil
          ELSE IF Priced(prices.reverseHolofoil) THEN prices.reverseHolofoil
          ELSE IF Priced(prices.normal) THEN prices.normal
          ELSE Nothing

getCardMarketPrice(card) ==
  IF ~IsSome(card.prices) THEN Nothing
  ELSE LET prices == Get(card.prices)
       IN IF IsSome(prices.holofoil) THEN prices.holofoil
          ELSE IF IsSome(prices.reverseHolofoil) THEN prices.reverseHolofoil
          ELSE IF IsSome(prices.normal) THEN prices.normal
          ELSE Nothing

(***************************************************************************)
(* The external catalog: opaque, so each search may answer with any of the *)
(* card lists below or fail                                                *)
(***************************************************************************)

CardA ==
  [id |-> "c1", name |-> <<"p">>, number |-> <<"7">>, rarity |-> <<"C">>,
   set |-> [id |-> <<"s">>, name |-> <<"S">>,
            releaseDate |-> <<"2", "0", "2", "5">>],
   prices |-> Some([holofoil |-> Nothing, reverseHolofoil |-> Nothing,
                    normal |-> Some(5)])]

CardB ==
  [id |-> "c2", name |-> <<"p", "v">>, number |-> <<"1", "7">>,
   rarity |-> <<"R">>,
   set |-> [id |-> <<"t">>, name |-> <<"T">>,
            releaseDate |-> <<"2", "0", "2", "0">>],
   prices |-> Nothing]

\* searchCards: every result it can return for these params when the catalog
\* answers with one of the card lists in responses or fails, with the catalog
\* searches it made (calls)
searchCards(params, responses) ==
  LET query == buildSearchQuery(params)
  IN IF query.parts = {}
       THEN {[success |-> FALSE, cards |-> <<>>,
              error |-> "No search parameters provided", calls |-> <<>>]}
       ELSE {[success |-> TRUE, cards |-> c, error |-> "",
              calls |-> <<query.parts>>] : c \in responses}
            \cup {[success |-> FALSE, cards |-> <<>>, error |-> "API error",
                   calls |-> <<query.parts>>]}

\* findExactCard: the exact search, then the name-only search
findExactCard(name, number, setId, responses) ==
  UNION {
    IF exactResult.success /\ Len(exactResult.cards) > 0
      THEN {exactResult}
    ELSE IF name # <<>>
      THEN {[nameResult EXCEPT !.calls = exactResult.calls \o nameResult.calls] :
              nameResult \in searchCards(
                [name |-> name, number |-> <<>>, setId |-> <<>>], responses)}
    ELSE {exactResult}
    : exactResult \in searchCards(
        [name |-> name, number |-> number, setId |-> setId], responses)}

(***************************************************************************)
(* POST /api/cards/search                                                  *)
(***************************************************************************)

\* Every response of the route to a request body of a signed-in user (the
\* session is the authentication collaborator's); ok is response.ok
POST(body, responses) ==
  IF body.name = <<>> /\ body.number = <<>> /\ body.setId = <<>>
    THEN {[ok |-> FALSE, cards |-> <<>>,
           error |-> "At least one search parameter is required",
           calls |-> <<>>]}
    ELSE {[ok |-> result.success, cards |-> result.cards,
           error |-> IF result.success THEN "" ELSE result.error,
           calls |-> result.calls] :
            result \in IF body.name # <<>> /\ body.number # <<>>
                         THEN findExactCard(body.name, body.number,
                                            body.setId, responses)
                         ELSE searchCards(body, responses)}

(***************************************************************************)
(* hooks.ts                                                                *)
(***************************************************************************)

\* fetchCards: every way the call can settle; thrown is a rejected fetch()
fetchCards(params, responses) ==
  {[thrown |-> TRUE, success |-> FALSE, cards |-> <<>>,
    error |-> "Failed to fetch", calls |-> <<>>]}
  \cup
  {[thrown |-> FALSE, success |-> response.ok, cards |-> response.cards,
    error |-> response.error, calls |-> response.calls] :
      response \in POST(params, responses)}

ScoredBefore(a, b) ==
  IF b.accuracyScore # a.accuracyScore
    THEN b.accuracyScore - a.accuracyScore < 0
    ELSE localeCompare(b.set.releaseDate, a.set.releaseDate) < 0

\* Array.prototype.sort is stable: x is inserted after every element it must
\* not precede
RECURSIVE InsertScored(_, _)
InsertScored(sorted, x) ==
  IF sorted = <<>> THEN <<x>>
  ELSE IF ScoredBefore(x, Head(sorted)) THEN <<x>> \o sorted
  ELSE <<Head(sorted)>> \o InsertScored(Tail(sorted), x)

RECURSIVE SortScored(_)
SortScored(list) ==
  IF list = <<>> THEN <<>>
  ELSE InsertScored(SortScored(SubSeq(list, 1, Len(list) - 1)), list[Len(list)])

scoreAndSortCards(cards, queryNumber, queryName, querySetId, currentYear) ==
  LET scoredCards ==
        [i \in 1..Len(cards) |->
          LET card == cards[i]
              result == calculateAccuracyScore(
                          card.number, card.name, card.set.id,
                          Some(card.set.releaseDate),
                          IsSome(getCardMarketPrice(card)),
                          queryNumber, queryName, querySetId, currentYear)
          IN [id |-> card.id, name |-> card.name, number |-> card.number,
              rarity |-> card.rarity, set |-> card.set, prices |-> card.prices,
              accuracyScore |-> result.score,
              scoreBreakdown |-> result.breakdown]]
  IN SortScored(scoredCards)

filterBySet(cards, setId) ==
  IF setId = <<>> THEN cards ELSE SelectSeq(cards, LAMBDA card : card.set.id = setId)

filterByRarity(cards, rarity) ==
  IF rarity = <<>> THEN cards ELSE SelectSeq(cards, LAMBDA card : card.rarity = rarity)

\* paginateCards with a page counted as having more when it ends at the end
paginateCardsInclusive(cards, page, pageSize) ==
  LET start == (page - 1) * pageSize
      end == start + pageSize
      last == IF end > Len(cards) THEN Len(cards) ELSE end
  IN [items |-> IF start >= Len(cards) THEN <<>> ELSE SubSeq(cards, start + 1, last),
      hasMore |-> end <= Len(cards),
      totalPages |-> (Len(cards) + pageSize - 1) \div pageSize]

\* paginateCards with each page starting one card late
paginateCardsLate(cards, page, pageSize) ==
  LET start == (page - 1) * pageSize + 1
      end == start + pageSize
      last == IF end > Len(cards) THEN Len(cards) ELSE end
  IN [items |-> IF start >= Len(cards) THEN <<>> ELSE SubSeq(cards, start + 1, last),
      hasMore |-> end < Len(cards),
      totalPages |-> (Len(cards) + pageSize - 1) \div pageSize]

paginateCards(cards, page, pageSize) ==
  LET start == (page - 1) * pageSize
      end == start + pageSize
      last == IF end > Len(cards) THEN Len(cards) ELSE end
  IN [items |-> IF start >= Len(cards) THEN <<>> ELSE SubSeq(cards, start + 1, last),
      hasMore |-> end < Len(cards),
      totalPages |-> (Len(cards) + pageSize - 1) \div pageSize]

\* The four strategies of useSearchFromVision's query function, in its order
Strategies == 1..4

\* Mutant: strategy 1 is guarded by the set id alone
ApplicableBySetId(s, v) ==
  CASE s = 1 -> v.set_id # <<>>
    [] s = 2 -> v.card_number # <<>> /\ v.pokemon_name # <<>>
    [] s = 3 -> v.card_number # <<>>
    [] s = 4 -> v.pokemon_name # <<>>

\* The condition guarding strategy s (truthiness of the raw fields)
Applicable(s, v) ==
  CASE s = 1 -> v.card_number # <<>> /\ v.set_id # <<>>
    [] s = 2 -> v.card_number # <<>> /\ v.pokemon_name # <<>>
    [] s = 3 -> v.card_number # <<>>
    [] s = 4 -> v.pokemon_name # <<>>

\* The params of a search that uses the name for English cards only
StrategyParamsByLanguage(s, v) ==
  LET normalizedNumber == normalizeCardNumber(v.card_number)
  IN [name |-> IF s \in {2, 4} /\ v.language = "en" THEN v.pokemon_name
                                                    ELSE <<>>,
      number |-> IF s \in 1..3 THEN normalizedNumber.number ELSE <<>>,
      setId |-> IF s = 1 THEN v.set_id ELSE <<>>]

\* The params strategy s passes to fetchCards
StrategyParams(s, v) ==
  LET normalizedNumber == normalizeCardNumber(v.card_number)
  IN CASE s = 1 -> [name |-> <<>>, number |-> normalizedNumber.number,
                    setId |-> v.set_id]
       [] s = 2 -> [name |-> v.pokemon_name, number |-> normalizedNumber.number,
                    setId |-> <<>>]
       [] s = 3 -> [name |-> <<>>, number |-> normalizedNumber.number,
                    setId |-> <<>>]
       [] s = 4 -> [name |-> v.pokemon_name, number |-> <<>>, setId |-> <<>>]

\* Mutant: a strategy returns as soon as its call succeeds, cards or not
StrategyReturnsOnSuccess(s, result) ==
  IF s = 4 THEN TRUE ELSE result.success

\* Whether the query function returns at strategy s with this fetchCards result
StrategyReturns(s, result) ==
  IF s = 4 THEN TRUE ELSE result.success /\ Len(result.cards) > 0

\* The first strategy from `from` on whose guard holds, 0 when there is none
NextStrategy(v, from) ==
  IF \E s \in Strategies : s >= from /\ Applicable(s, v)
    THEN CHOOSE s \in Strategies :
           /\ s >= from /\ Applicable(s, v)
           /\ \A t \in Strategies : (t >= from /\ Applicable(t, v)) => s <= t
    ELSE 0

\* What the query function returns at a strategy: { ...result, scoredCards }.
\* queriedFor is history: the vision input the run was given.
StrategyResult(v, result, currentYear) ==
  [success |-> result.success, cards |-> result.cards, error |-> result.error,
   scoredCards |-> scoreAndSortCards(result.cards,
                                     normalizeCardNumber(v.card_number),
                                     v.pokemon_name, v.set_id, currentYear),
   queriedFor |-> Some(v)]

NoVisionResult ==
  [success |-> FALSE, cards |-> <<>>, scoredCards |-> <<>>,
   error |-> "No vision result", queriedFor |-> Nothing]

NoSearchCriteria(v) ==
  [success |-> FALSE, cards |-> <<>>, scoredCards |-> <<>>,
   error |-> "No search criteria", queriedFor |-> Some(v)]

\* Mutant: one more retry
retryUpToFour(failureCount, errorName) ==
  IF errorName = "AbortError" THEN FALSE ELSE failureCount < 4

\* retry: (failureCount, error) => ...; errorName is error.name
retry(failureCount, errorName) ==
  IF errorName = "AbortError" THEN FALSE ELSE failureCount < 3

\* retryDelay in milliseconds
retryDelay(attemptIndex) ==
  LET d == 1000 * 2 ^ attemptIndex IN IF d < 10000 THEN d ELSE 10000

(***************************************************************************)
(* result-form.tsx on the TanStack Query cache: state                      *)
(***************************************************************************)

PAGE_SIZE == 12

\* Bounds of the model
MaxTrigger == 1

MaxAborted == 1

MaxCached == 0

\* Field values the user and the vision collaborator may produce
Names == {<<>>, <<"p">>}

Numbers == {<<>>, <<"0", "7">>}

SetIds == {<<>>, <<"s">>}

Languages == {"en", "ko"}

\* VisionResponseSchema: name and number are non-empty, set_id is optional
VisionResults ==
  [pokemon_name : Names \ {<<>>}, card_number : Numbers \ {<<>>},
   set_id : SetIds, language : Languages]

\* The query key of a hook whose vision input is null
NullKey ==
  [pokemon_name |-> <<>>, card_number |-> <<>>, set_id |-> <<>>,
   language |-> ""]

QueryKeys ==
  [pokemon_name : Names, card_number : Numbers, set_id : SetIds,
   language : Languages] \cup {NullKey}

\* A query the cache has just built: no data, not fetched yet
NewQuery == [status |-> "pending", data |-> Nothing]

VARIABLES
  visionResult,         \* prop: the identification result
  pokemonName,          \* useState: editable name
  cardNumber,           \* useState: editable number
  setId,                \* useState: editable set id
  isManualSearch,       \* useState
  manualSearchTrigger,  \* useState
  selectedCard,         \* useState: Nothing or Some(scored card)
  filterSet,            \* useState
  filterRarity,         \* useState
  currentPage,          \* useState
  autoSelectedRef,      \* useRef
  visionResultIdRef,    \* useRef
  cache,                \* the query cache: key -> [status, data]
  run,                  \* the query function in flight, if any
  abortedInFlight,      \* aborted requests whose promises have not settled
  clockYear,            \* new Date().getFullYear()
  catalog,              \* the card lists the external catalog may answer with
  visions,              \* the results the vision collaborator may produce
  history,              \* whether history is recorded (trace, deselectedFor)
  deselectedFor,        \* history: the query whose results were displayed
                        \* when the user last deselected a card
  ev,                   \* what the last step did (history, for the properties)
  libCall               \* a call of a function of lib/tcg made on its own:
                        \* its arguments and what it returned

vars ==
  <<visionResult, pokemonName, cardNumber, setId, isManualSearch,
    manualSearchTrigger, selectedCard, filterSet, filterRarity, currentPage,
    autoSelectedRef, visionResultIdRef, cache, run, abortedInFlight,
    clockYear, catalog, visions, history, deselectedFor, ev, libCall>>

\* The form's state as one record (deselectedFor is history, not React state)
Form ==
  [visionResult |-> visionResult, pokemonName |-> pokemonName,
   cardNumber |-> cardNumber, setId |-> setId,
   isManualSearch |-> isManualSearch,
   manualSearchTrigger |-> manualSearchTrigger,
   selectedCard |-> selectedCard, filterSet |-> filterSet,
   filterRarity |-> filterRarity, currentPage |-> currentPage,
   autoSelectedRef |-> autoSelectedRef,
   visionResultIdRef |-> visionResultIdRef,
   deselectedFor |-> deselectedFor]

\* `${pokemon_name}-${card_number}-${set_id || ""}`
VisionId(v) == v.pokemon_name \o <<"-">> \o v.card_number \o <<"-">> \o v.set_id

\* Mutant: the query key leaves the set id out
queryKeyWithoutSet(input) ==
  IF IsSome(input) THEN [Get(input) EXCEPT !.set_id = <<>>] ELSE NullKey

\* queryKey of useSearchFromVision for a vision input (Nothing is null)
queryKey(input) == IF IsSome(input) THEN Get(input) ELSE NullKey

\* The input of the automatic hook: isManualSearch ? null : visionResult
AutoInput(f) == IF f.isManualSearch THEN Nothing ELSE Some(f.visionResult)

\* The input of manualSearchQuery
ManualInput(f) ==
  IF f.isManualSearch
    THEN Some([pokemon_name |-> f.pokemonName, card_number |-> f.cardNumber,
               set_id |-> f.setId, language |-> f.visionResult.language])
    ELSE Nothing

\* The hook whose result the form shows (activeResult, activeError, ...)
ActiveInput(f) == IF f.isManualSearch THEN ManualInput(f) ELSE AutoInput(f)

ActiveKey(f) == queryKey(ActiveInput(f))

\* The enabled option of the active hook
ActiveEnabled(f) ==
  IF f.isManualSearch THEN f.manualSearchTrigger > 0 ELSE TRUE

IsFetching(r, k) == IsSome(r) /\ Get(r).key = k

activeResult == cache[ActiveKey(Form)].data

activeFetching == IsFetching(run, ActiveKey(Form))

activeLoading == cache[ActiveKey(Form)].status = "pending" /\ activeFetching

activeError == cache[ActiveKey(Form)].status = "error"

scoredCards == IF IsSome(activeResult) THEN Get(activeResult).scoredCards ELSE <<>>

filteredCards == filterByRarity(filterBySet(scoredCards, filterSet), filterRarity)

paginatedResult == paginateCards(filteredCards, currentPage, PAGE_SIZE)

hasResults ==
  IsSome(activeResult) /\ Get(activeResult).success /\ Len(filteredCards) > 0

noResults ==
  IsSome(activeResult) /\ Get(activeResult).success /\ Len(filteredCards) = 0

\* The distinct set ids and rarities of the scored cards (filter dropdowns)
availableSetIds == {scoredCards[i].set.id : i \in 1..Len(scoredCards)}

availableRarities ==
  {scoredCards[i].rarity : i \in 1..Len(scoredCards)} \ {<<>>}

\* The ShowingOf count of the results header
totalCount == Len(filteredCards)

showing ==
  IF currentPage * PAGE_SIZE < totalCount THEN currentPage * PAGE_SIZE
                                          ELSE totalCount

\* What the form renders
ShowsLoading == activeLoading \/ activeFetching

ShowsErrorBanner == activeError /\ ~activeLoading

ShowsFilters == hasResults /\ Len(scoredCards) > 1 /\ ~activeLoading

ShowsResults == ~activeLoading /\ ~activeFetching /\ hasResults

ShowsNoResults == ~activeLoading /\ ~activeFetching /\ noResults

ShowsSearchButton == isManualSearch

(***************************************************************************)
(* The query cache and the observers                                       *)
(***************************************************************************)

\* What a settled run of the query function looked like: the fetchCards calls
\* it made (trace), whether it threw, the result it returned if it did not,
\* and the number of the attempt
Settled(input, trace, thrown, result, attempts) ==
  Some([input |-> input, trace |-> trace, thrown |-> thrown,
        result |-> result, attempts |-> attempts])

\* Query.fetch: start the query function of key k. It settles at once when it
\* awaits nothing (null input, or no strategy applies).
StartFetch(c, k, input) ==
  IF ~IsSome(input)
    THEN [cache |-> [c EXCEPT ![k] = [status |-> "success",
                                      data |-> Some(NoVisionResult)]],
          run |-> Nothing,
          settled |-> Nothing]
  ELSE IF NextStrategy(Get(input), 1) = 0
    THEN [cache |-> [c EXCEPT ![k] = [status |-> "success",
                                      data |-> Some(NoSearchCriteria(Get(input)))]],
          run |-> Nothing,
          settled |-> Settled(input, <<>>, FALSE,
                              Some(NoSearchCriteria(Get(input))), 1)]
  ELSE [cache |-> [c EXCEPT ![k].status =
                     IF IsSome(c[k].data) THEN c[k].status ELSE "pending"],
        run |-> Some([key |-> k, input |-> input,
                      strategy |-> NextStrategy(Get(input), 1),
                      trace |-> <<>>, failureCount |-> 0, revert |-> c[k]]),
        settled |-> Nothing]

\* Queries with state that no observer watches
CachedInactive(c, k) == {x \in QueryKeys \ {k, NullKey} : c[x] # NewQuery}

\* gcTime: a timer removes a query that has no observer. The timers of all
\* but the queries in keep have fired by the end of the step.
CollectGarbage(c, k, keep) ==
  [x \in QueryKeys |->
    IF x \in CachedInactive(c, k) \ keep THEN NewQuery ELSE c[x]]

\* One render of the form after a handler or a cache update: f, c, r, ab are
\* the form, the cache, the run and the aborted requests the step leaves;
\* trigger is "none", "refetch" (refetch()) or "focus" (window focus).
\* The observers follow the new options (cancel the query that lost its
\* observer, fetch the one that needs it), then the effects run. At most
\* MaxCached queries without an observer stay in the cache.
Commit(f, c, r, ab, trigger, type, settled) ==
  LET k == ActiveKey(f)
      k0 == ActiveKey(Form)
      cancel == IsSome(r) /\ Get(r).key # k
      c1 == IF cancel THEN [c EXCEPT ![Get(r).key] = Get(r).revert] ELSE c
      r1 == IF cancel THEN Nothing ELSE r
      ab1 == IF cancel THEN ab + 1 ELSE ab
      \* the automatic hook with a null input is enabled and fetches at once
      c2 == IF f.isManualSearch
              THEN StartFetch(c1, NullKey, Nothing).cache
              ELSE c1
      optionsChanged == k # k0 \/ (ActiveEnabled(f) /\ ~ActiveEnabled(Form))
      \* the observer asks for a fetch when its query has no data or is stale
      asks == /\ ~IsSome(r1)
              /\ trigger # "refetch"
              /\ ActiveEnabled(f)
              /\ optionsChanged \/ trigger = "focus"
  IN \E stale \in IF asks /\ IsSome(c2[k].data) THEN BOOLEAN ELSE {FALSE} :
       LET fetches ==
             /\ ~IsSome(r1)
             /\ \/ trigger = "refetch"
                \/ asks /\ (~IsSome(c2[k].data) \/ stale)
           started == StartFetch(c2, k, ActiveInput(f))
           c3 == IF fetches THEN started.cache ELSE c2
           r3 == IF fetches THEN started.run ELSE r1
           settled3 == IF fetches /\ IsSome(started.settled)
                         THEN started.settled ELSE settled
           ar0 == cache[k0].data
           ar1 == c3[k].data
           \* the effect's dependencies: activeResult (by reference) and
           \* selectedCard
           resultChanged ==
             IF IsSome(ar0) /\ IsSome(ar1)
               THEN k # k0 \/ Get(ar0) # Get(ar1)
               ELSE IsSome(ar0) # IsSome(ar1)
           effectRuns == resultChanged \/ f.selectedCard # selectedCard
           fires ==
             /\ effectRuns
             /\ IsSome(ar1)
             /\ Get(ar1).success
             /\ Len(Get(ar1).scoredCards) = 1
             /\ ~IsSome(f.selectedCard)
             /\ ~f.autoSelectedRef
       IN /\ ab1 <= MaxAborted
          /\ visionResult' = f.visionResult
          /\ pokemonName' = f.pokemonName
          /\ cardNumber' = f.cardNumber
          /\ setId' = f.setId
          /\ isManualSearch' = f.isManualSearch
          /\ manualSearchTrigger' = f.manualSearchTrigger
          /\ filterSet' = f.filterSet
          /\ filterRarity' = f.filterRarity
          /\ currentPage' = f.currentPage
          /\ visionResultIdRef' = f.visionResultIdRef
          /\ selectedCard' =
               IF fires THEN Some(Get(ar1).scoredCards[1]) ELSE f.selectedCard
          /\ autoSelectedRef' = IF fires THEN TRUE ELSE f.autoSelectedRef
          /\ \E keep \in SUBSET CachedInactive(c3, k) :
               /\ Cardinality(keep) <= MaxCached
               /\ cache' = CollectGarbage(c3, k, keep)
          /\ run' = r3
          /\ abortedInFlight' = ab1
          /\ clockYear' = clockYear
          /\ catalog' = catalog
          /\ visions' = visions
          /\ history' = history
          /\ deselectedFor' = f.deselectedFor
          /\ ev' = [type |-> type, fetchStarted |-> fetches,
                    autoFired |-> fires, settled |-> settled3]
          /\ libCall' = libCall

(***************************************************************************)
(* Initial state: the form is mounted with a vision result and the         *)
(* automatic search has started                                            *)
(***************************************************************************)

NoEvent ==
  [type |-> "mount", fetchStarted |-> TRUE, autoFired |-> FALSE,
   settled |-> Nothing]

\* No function of lib/tcg is called on its own
NoCall == [fn |-> "none"]

\* The form as mounted with the vision result v
Mounted(v) ==
    LET started == StartFetch([k \in QueryKeys |-> NewQuery],
                              queryKey(Some(v)), Some(v))
    IN /\ visionResult = v
       /\ pokemonName = v.pokemon_name
       /\ cardNumber = v.card_number
       /\ setId = v.set_id
       /\ isManualSearch = FALSE
       /\ manualSearchTrigger = 0
       /\ selectedCard = Nothing
       /\ filterSet = <<>>
       /\ filterRarity = <<>>
       /\ currentPage = 1
       /\ autoSelectedRef = FALSE
       /\ visionResultIdRef = VisionId(v)
       /\ cache = started.cache
       /\ run = started.run
       /\ abortedInFlight = 0
       /\ clockYear = 2026
       /\ deselectedFor = Nothing
       /\ ev = NoEvent

\* The query lifecycle of the form: two scans of the same card, with and
\* without a set id, against a catalog that knows one card; the window keeps
\* the focus (SpecSelect refetches on focus)
Init ==
  /\ visions = {v \in VisionResults : v.language = "en"}
  /\ catalog = {<<>>, <<CardA>>}
  /\ history = FALSE
  /\ libCall = NoCall
  /\ \E v \in visions : Mounted(v)

(***************************************************************************)
(* The form's handlers                                                     *)
(***************************************************************************)

\* A new identification result arrives as the visionResult prop; the effect
\* on [visionResult] resets the form when its id differs from the ref
VisionChange(v) ==
  /\ v # visionResult
  /\ LET newId == VisionId(v)
         f == IF newId # visionResultIdRef
                THEN [Form EXCEPT !.visionResult = v,
                                  !.visionResultIdRef = newId,
                                  !.selectedCard = Nothing,
                                  !.isManualSearch = FALSE,
                                  !.manualSearchTrigger = 0,
                                  !.filterSet = <<>>,
                                  !.filterRarity = <<>>,
                                  !.currentPage = 1,
                                  !.autoSelectedRef = FALSE,
                                  !.deselectedFor = Nothing,
                                  !.pokemonName = v.pokemon_name,
                                  !.cardNumber = v.card_number,
                                  !.setId = v.set_id]
                ELSE [Form EXCEPT !.visionResult = v]
     IN Commit(f, cache, run, abortedInFlight, "none", "visionChange", Nothing)

\* onChange of the name, number and set inputs
EditName(value) ==
  /\ value # pokemonName
  /\ Commit([Form EXCEPT !.pokemonName = value, !.isManualSearch = TRUE],
            cache, run, abortedInFlight, "none", "edit", Nothing)

EditNumber(value) ==
  /\ value # cardNumber
  /\ Commit([Form EXCEPT !.cardNumber = value, !.isManualSearch = TRUE],
            cache, run, abortedInFlight, "none", "edit", Nothing)

EditSetId(value) ==
  /\ value # setId
  /\ Commit([Form EXCEPT !.setId = value, !.isManualSearch = TRUE],
            cache, run, abortedInFlight, "none", "edit", Nothing)

\* The search button: shown in manual mode, disabled while loading or
\* fetching or without a name
handleManualSearch ==
  /\ ShowsSearchButton
  /\ ~(activeLoading \/ activeFetching)
  /\ pokemonName # <<>>
  /\ manualSearchTrigger < MaxTrigger
  /\ Commit([Form EXCEPT !.isManualSearch = TRUE,
                         !.selectedCard = Nothing,
                         !.filterSet = <<>>,
                         !.filterRarity = <<>>,
                         !.currentPage = 1,
                         !.autoSelectedRef = FALSE,
                         !.manualSearchTrigger = manualSearchTrigger + 1],
            cache, run, abortedInFlight, "none", "manualSearch", Nothing)

\* A click on a card of the results grid
handleCardSelect(card) ==
  /\ ShowsResults
  /\ \E i \in 1..Len(paginatedResult.items) : paginatedResult.items[i] = card
  /\ Commit([Form EXCEPT !.selectedCard = Some(card)],
            cache, run, abortedInFlight, "none", "select", Nothing)

handleDeselect ==
  /\ IsSome(selectedCard)
  /\ Commit([Form EXCEPT !.selectedCard = Nothing, !.autoSelectedRef = TRUE,
                         !.deselectedFor =
                            IF history /\ hasResults THEN Some(ActiveKey(Form))
                                                     ELSE Nothing],
            cache, run, abortedInFlight, "none", "deselect", Nothing)

\* The retry button of the error banner: refetch() of the active hook, which
\* cancels a refetch already in flight
handleRetry ==
  /\ ShowsErrorBanner
  /\ Commit(Form, cache, Nothing,
            IF IsSome(run) THEN abortedInFlight + 1 ELSE abortedInFlight,
            "refetch", "retry", Nothing)

\* The Load More button, rendered under the results grid while the page
\* shown has more after it
handleLoadMore ==
  /\ ShowsResults
  /\ paginatedResult.hasMore
  /\ Commit([Form EXCEPT !.currentPage = currentPage + 1],
            cache, run, abortedInFlight, "none", "loadMore", Nothing)

All == <<"a", "l", "l">>

handleSetFilterChange(value) ==
  /\ ShowsFilters
  /\ Cardinality(availableSetIds) > 1
  /\ value \in availableSetIds \cup {All}
  /\ Commit([Form EXCEPT !.filterSet = IF value = All THEN <<>> ELSE value,
                         !.currentPage = 1],
            cache, run, abortedInFlight, "none", "filter", Nothing)

handleRarityFilterChange(value) ==
  /\ ShowsFilters
  /\ Cardinality(availableRarities) > 1
  /\ value \in availableRarities \cup {All}
  /\ Commit([Form EXCEPT !.filterRarity = IF value = All THEN <<>> ELSE value,
                         !.currentPage = 1],
            cache, run, abortedInFlight, "none", "filter", Nothing)

(***************************************************************************)
(* The query function and the cache's own events                           *)
(***************************************************************************)

\* The fetchCards call the query function awaits settles; the function goes
\* on to its next strategy, returns, or throws (and is retried or fails)
FetchCardsSettles ==
  /\ IsSome(run)
  /\ LET r == Get(run)
         v == Get(r.input)
         s == r.strategy
     IN \E o \in {[x EXCEPT !.calls = IF history THEN x.calls ELSE <<>>] :
                   x \in fetchCards(StrategyParams(s, v), catalog)} :
          LET trace == IF history
                         THEN Append(r.trace,
                                     [strategy |-> s, thrown |-> o.thrown,
                                      success |-> o.success, cards |-> o.cards,
                                      calls |-> o.calls])
                         ELSE <<>>
              attempts == r.failureCount + 1
              next == NextStrategy(v, s + 1)
              result == IF StrategyReturns(s, o)
                          THEN StrategyResult(v, o, clockYear)
                          ELSE NoSearchCriteria(v)
          IN IF o.thrown
               THEN IF retry(r.failureCount, "TypeError")
                      THEN Commit(Form, cache,
                                  Some([r EXCEPT !.failureCount = r.failureCount + 1,
                                                 !.strategy = NextStrategy(v, 1),
                                                 !.trace = <<>>]),
                                  abortedInFlight, "none", "query",
                                  Settled(r.input, trace, TRUE, Nothing, attempts))
                      ELSE Commit(Form,
                                  [cache EXCEPT ![r.key].status = "error"],
                                  Nothing, abortedInFlight, "none", "query",
                                  Settled(r.input, trace, TRUE, Nothing, attempts))
             ELSE IF StrategyReturns(s, o) \/ next = 0
               THEN Commit(Form,
                           [cache EXCEPT ![r.key] =
                              [status |-> "success", data |-> Some(result)]],
                           Nothing, abortedInFlight, "none", "query",
                           Settled(r.input, trace, FALSE, Some(result), attempts))
             ELSE Commit(Form, cache,
                         Some([r EXCEPT !.strategy = next, !.trace = trace]),
                         abortedInFlight, "none", "query", Nothing)

\* The promise of an aborted request rejects; its retryer is resolved already
\* and ignores it
AbortedSettles ==
  /\ abortedInFlight > 0
  /\ Commit(Form, cache, run, abortedInFlight - 1, "none", "query", Nothing)

\* refetchOnWindowFocus: a stale enabled query is fetched again
WindowFocus ==
  /\ ActiveEnabled(Form)
  /\ ~IsSome(run)
  /\ Commit(Form, cache, run, abortedInFlight, "focus", "query", Nothing)

Next ==
  \/ \E v \in visions : VisionChange(v)
  \/ \E value \in Names : EditName(value)
  \/ \E value \in Numbers : EditNumber(value)
  \/ \E value \in SetIds : EditSetId(value)
  \/ handleManualSearch
  \/ \E card \in {scoredCards[i] : i \in 1..Len(scoredCards)} : handleCardSelect(card)
  \/ handleDeselect
  \/ handleRetry
  \/ FetchCardsSettles
  \/ AbortedSettles

Spec == Init /\ [][Next]_vars

(***************************************************************************)
(* The cascade of one scan: the vision result stays, the user edits the    *)
(* fields and searches by hand, and every run records the fetchCards calls *)
(* it made                                                                 *)
(***************************************************************************)

ScannedCard ==
  [pokemon_name |-> <<"p">>, card_number |-> <<"0", "7">>, set_id |-> <<"s">>,
   language |-> "ko"]

InitCascade ==
  /\ visions = {ScannedCard}
  /\ catalog = {<<>>, <<CardA>>, <<CardB, CardA>>}
  /\ history = TRUE
  /\ libCall = NoCall
  /\ Mounted(ScannedCard)

NextCascade ==
  \/ \E value \in Names : EditName(value)
  \/ \E value \in Numbers : EditNumber(value)
  \/ \E value \in SetIds : EditSetId(value)
  \/ handleManualSearch
  \/ FetchCardsSettles
  \/ AbortedSettles

SpecCascade == InitCascade /\ [][NextCascade]_vars

(***************************************************************************)
(* The selection of one scan: the catalog knows the scanned card, the user *)
(* edits the set field, searches by hand, selects and deselects            *)
(***************************************************************************)

InitSelect ==
  /\ visions = {ScannedCard}
  /\ catalog = {<<CardA>>}
  /\ history = TRUE
  /\ libCall = NoCall
  /\ Mounted(ScannedCard)

NextSelect ==
  \/ \E value \in SetIds : EditSetId(value)
  \/ handleManualSearch
  \/ \E card \in {scoredCards[i] : i \in 1..Len(scoredCards)} : handleCardSelect(card)
  \/ handleDeselect
  \/ handleRetry
  \/ FetchCardsSettles
  \/ AbortedSettles
  \/ WindowFocus

SpecSelect == InitSelect /\ [][NextSelect]_vars

(***************************************************************************)
(* The rescan: the vision collaborator identifies the card again, in       *)
(* another language or without its set, while the user selects and filters *)
(***************************************************************************)

InitVision ==
  /\ visions = {ScannedCard, [ScannedCard EXCEPT !.language = "en"],
                [ScannedCard EXCEPT !.set_id = <<>>]}
  /\ catalog = {<<CardA>>, <<CardB, CardA>>}
  /\ history = FALSE
  /\ libCall = NoCall
  /\ Mounted(ScannedCard)

NextVision ==
  \/ \E v \in visions : VisionChange(v)
  \/ \E card \in {scoredCards[i] : i \in 1..Len(scoredCards)} : handleCardSelect(card)
  \/ handleDeselect
  \/ \E value \in availableSetIds \cup {All} : handleSetFilterChange(value)
  \/ \E value \in availableRarities \cup {All} : handleRarityFilterChange(value)
  \/ FetchCardsSettles
  \/ AbortedSettles

SpecVision == InitVision /\ [][NextVision]_vars

(***************************************************************************)
(* calculateAccuracyScore called on its own: the same arguments are scored *)
(* up to MaxEvaluations times while the years pass                         *)
(***************************************************************************)

MaxEvaluations == 2
LastYear == 2027

\* Every variable but the clock and the call
formVars ==
  <<visionResult, pokemonName, cardNumber, setId, isManualSearch,
    manualSearchTrigger, selectedCard, filterSet, filterRarity, currentPage,
    autoSelectedRef, visionResultIdRef, cache, run, abortedInFlight,
    catalog, visions, history, deselectedFor, ev>>

\* AccuracyScoreParams; queryNumber is the text normalizeCardNumber is given
AccuracyScoreParams ==
  [cardNumber : {<<"0", "7">>, <<"1", "7">>},
   cardName : {<<"P">>, <<"p", "v">>},
   cardSetId : {<<"s">>},
   cardReleaseDate : {Nothing, Some(<<>>),
                      Some(<<"2", "0", "2", "5", "-", "0">>),
                      Some(<<"2", "0", "2", "4">>),
                      Some(<<"2", "0", "2", "3">>),
                      Some(<<"2", "0", "a", "5">>)},
   hasMarketPrice : BOOLEAN,
   queryNumber : {<<>>, <<"7", "/", "1">>, <<"1", "7">>, <<"1">>},
   queryName : {<<>>, <<" ">>, <<"p">>, <<"p", "v">>, <<"x">>},
   querySetId : {<<>>, <<"S">>, <<"s", "t">>, <<"t">>}]

InitScore ==
  /\ visions = {ScannedCard}
  /\ catalog = {<<>>}
  /\ history = FALSE
  /\ Mounted(ScannedCard)
  /\ \E params \in AccuracyScoreParams :
       libCall = [fn |-> "calculateAccuracyScore", params |-> params,
                  evaluations |-> <<>>, scored |-> <<>>]

\* calculateAccuracyScore(params) is evaluated now
Evaluate ==
  /\ libCall.fn = "calculateAccuracyScore"
  /\ Len(libCall.evaluations) < MaxEvaluations
  /\ LET params == libCall.params
         result == calculateAccuracyScore(
                     params.cardNumber, params.cardName, params.cardSetId,
                     params.cardReleaseDate, params.hasMarketPrice,
                     normalizeCardNumber(params.queryNumber),
                     params.queryName, params.querySetId, clockYear)
     IN libCall' = [libCall EXCEPT !.evaluations =
                      Append(@, [year |-> clockYear, result |-> result])]
  /\ UNCHANGED <<formVars, clockYear>>

\* A catalog card with the candidate fields of params (its set has a release
\* date)
TCGCardOf(params) ==
  [id |-> "c", name |-> params.cardName, number |-> params.cardNumber,
   rarity |-> <<>>,
   set |-> [id |-> params.cardSetId, name |-> <<>>,
            releaseDate |-> Get(params.cardReleaseDate)],
   prices |-> IF params.hasMarketPrice
                THEN Some([holofoil |-> Nothing, reverseHolofoil |-> Nothing,
                           normal |-> Some(5)])
                ELSE Nothing]

\* scoreAndSortCards builds the ScoredCard of that one card now
ScoreCard ==
  /\ libCall.fn = "calculateAccuracyScore"
  /\ libCall.scored = <<>>
  /\ IsSome(libCall.params.cardReleaseDate)
  /\ LET params == libCall.params
         cards == scoreAndSortCards(
                    <<TCGCardOf(params)>>,
                    normalizeCardNumber(params.queryNumber),
                    params.queryName, params.querySetId, clockYear)
     IN libCall' = [libCall EXCEPT !.scored =
                      <<[year |-> clockYear, card |-> cards[1]]>>]
  /\ UNCHANGED <<formVars, clockYear>>

\* A year passes
NewYear ==
  /\ clockYear < LastYear
  /\ clockYear' = clockYear + 1
  /\ UNCHANGED <<formVars, libCall>>

NextScore ==
  \/ Evaluate
  \/ ScoreCard
  \/ NewYear

SpecScore == InitScore /\ [][NextScore]_vars

(***************************************************************************)
(* normalizeCardNumber called on its own: an input is normalized, then the *)
(* canonical rendering (full) of each result is normalized again           *)
(***************************************************************************)

MaxLen == 4
MaxNormalizations == 2

\* The characters of the inputs: digits, the slash, whitespace and a letter
NumberChars == {"0", "7", "/", " ", "a"}

NumberInputs == UNION {[1..n -> NumberChars] : n \in 0..MaxLen}

InitNormalize ==
  /\ visions = {ScannedCard}
  /\ catalog = {<<>>}
  /\ history = FALSE
  /\ Mounted(ScannedCard)
  /\ \E input \in NumberInputs :
       libCall = [fn |-> "normalizeCardNumber", input |-> input,
                  results |-> <<>>]

\* normalizeCardNumber is applied to the input, then to the full of its last
\* result
Normalize ==
  /\ libCall.fn = "normalizeCardNumber"
  /\ Len(libCall.results) < MaxNormalizations
  /\ LET x == IF libCall.results = <<>>
                THEN libCall.input
                ELSE libCall.results[Len(libCall.results)].full
     IN libCall' = [libCall EXCEPT !.results =
                      Append(@, normalizeCardNumber(x))]
  /\ UNCHANGED <<formVars, clockYear>>

NextNormalize == Normalize

SpecNormalize == InitNormalize /\ [][NextNormalize]_vars

(***************************************************************************)
(* The two sorts called on their own: sortByAccuracy on a list of scored   *)
(* items, scoreAndSortCards on a list of catalog cards and a query         *)
(***************************************************************************)

MaxCards == 4

\* The items sortByAccuracy is given: a score and an optional release date
ScoredItems ==
  [score : {1, 2},
   releaseDate : {Nothing, Some(<<"2", "0", "2", "0">>),
                  Some(<<"2", "0", "2", "1">>)}]

\* CardB as printed in a later set
CardC ==
  [CardB EXCEPT !.id = "c3",
                !.set = [id |-> <<"u">>, name |-> <<"U">>,
                         releaseDate |-> <<"2", "0", "2", "1">>]]

ListsOf(items) == UNION {[1..n -> items] : n \in 0..MaxCards}

InitSort ==
  /\ visions = {ScannedCard}
  /\ catalog = {<<>>}
  /\ history = FALSE
  /\ Mounted(ScannedCard)
  /\ \/ \E cards \in ListsOf(ScoredItems) :
          libCall = [fn |-> "sortByAccuracy", cards |-> cards,
                     sorted |-> Nothing]
     \/ \E cards \in ListsOf({CardA, CardB, CardC}) :
          \E queryNumber \in Numbers, queryName \in Names :
            libCall = [fn |-> "scoreAndSortCards", cards |-> cards,
                       queryNumber |-> queryNumber, queryName |-> queryName,
                       querySetId |-> <<>>, sorted |-> Nothing]

CallSortByAccuracy ==
  /\ libCall.fn = "sortByAccuracy"
  /\ libCall.sorted = Nothing
  /\ \E sorted \in sortByAccuracy(libCall.cards) :
       libCall' = [libCall EXCEPT !.sorted = Some(sorted)]
  /\ UNCHANGED <<formVars, clockYear>>

CallScoreAndSortCards ==
  /\ libCall.fn = "scoreAndSortCards"
  /\ libCall.sorted = Nothing
  /\ libCall' = [libCall EXCEPT !.sorted =
                   Some(scoreAndSortCards(
                          libCall.cards,
                          normalizeCardNumber(libCall.queryNumber),
                          libCall.queryName, libCall.querySetId, clockYear))]
  /\ UNCHANGED <<formVars, clockYear>>

NextSort ==
  \/ CallSortByAccuracy
  \/ CallScoreAndSortCards

SpecSort == InitSort /\ [][NextSort]_vars

(***************************************************************************)
(* paginateCards called on its own: the pages of a list are asked for one  *)
(* after the other, up to MaxPage                                          *)
(***************************************************************************)

MaxPageSize == 3
MaxPage == 5

InitPaginate ==
  /\ visions = {ScannedCard}
  /\ catalog = {<<>>}
  /\ history = FALSE
  /\ Mounted(ScannedCard)
  /\ \E cards \in ListsOf({"x", "y"}), pageSize \in 1..MaxPageSize :
       libCall = [fn |-> "paginateCards", cards |-> cards,
                  pageSize |-> pageSize, pages |-> <<>>]

\* paginateCards(cards, page, pageSize) for the next page
CallPaginateCards ==
  /\ libCall.fn = "paginateCards"
  /\ Len(libCall.pages) < MaxPage
  /\ libCall' = [libCall EXCEPT !.pages =
                   Append(@, paginateCards(libCall.cards, Len(@) + 1,
                                           libCall.pageSize))]
  /\ UNCHANGED <<formVars, clockYear>>

NextPaginate == CallPaginateCards

SpecPaginate == InitPaginate /\ [][NextPaginate]_vars

(***************************************************************************)
(* getCardMarketPrice called on its own, and scoreAndSortCards on the same *)
(* card, for every price table                                             *)
(***************************************************************************)

\* CardA with every table of market prices: none at all, or per finish a
\* missing price, 0 or a price
PricedCards ==
  {[CardA EXCEPT !.prices = prices] :
     prices \in {Nothing} \cup
       {Some(table) :
          table \in [holofoil : {Nothing, Some(0), Some(1), Some(5)},
                     reverseHolofoil : {Nothing, Some(0), Some(2), Some(6)},
                     normal : {Nothing, Some(0), Some(3), Some(7)}]}}

InitPrice ==
  /\ visions = {ScannedCard}
  /\ catalog = {<<>>}
  /\ history = FALSE
  /\ Mounted(ScannedCard)
  /\ \E card \in PricedCards :
       libCall = [fn |-> "getCardMarketPrice", card |-> card,
                  price |-> <<>>, scored |-> <<>>]

\* price holds what the call returned (Nothing for null)
CallGetCardMarketPrice ==
  /\ libCall.fn = "getCardMarketPrice"
  /\ libCall.price = <<>>
  /\ libCall' = [libCall EXCEPT !.price = <<getCardMarketPrice(libCall.card)>>]
  /\ UNCHANGED <<formVars, clockYear>>

\* scoreAndSortCards scores the card for the scanned query
ScorePricedCard ==
  /\ libCall.fn = "getCardMarketPrice"
  /\ libCall.scored = <<>>
  /\ libCall' = [libCall EXCEPT !.scored =
                   scoreAndSortCards(
                     <<libCall.card>>,
                     normalizeCardNumber(ScannedCard.card_number),
                     ScannedCard.pokemon_name, ScannedCard.set_id, clockYear)]
  /\ UNCHANGED <<formVars, clockYear>>

NextPrice ==
  \/ CallGetCardMarketPrice
  \/ ScorePricedCard

SpecPrice == InitPrice /\ [][NextPrice]_vars

(***************************************************************************)
(* extractUniqueSets called on its own                                     *)
(***************************************************************************)

\* Cards of three sets, each printed under either of two names
SetCards ==
  {[set |-> set] : set \in [id : {<<"s">>, <<"t">>, <<"u">>},
                            name : {<<"z">>, <<"a">>}]}

InitSets ==
  /\ visions = {ScannedCard}
  /\ catalog = {<<>>}
  /\ history = FALSE
  /\ Mounted(ScannedCard)
  /\ \E cards \in ListsOf(SetCards) :
       libCall = [fn |-> "extractUniqueSets", cards |-> cards,
                  sets |-> Nothing]

CallExtractUniqueSets ==
  /\ libCall.fn = "extractUniqueSets"
  /\ libCall.sets = Nothing
  /\ libCall' = [libCall EXCEPT !.sets = Some(extractUniqueSets(libCall.cards))]
  /\ UNCHANGED <<formVars, clockYear>>

NextSets == CallExtractUniqueSets

SpecSets == InitSets /\ [][NextSets]_vars

(***************************************************************************)
(* A long result list: the catalog answers with one card or with more      *)
(* cards than a page holds, the user loads more, filters by set, edits    *)
(* the name and searches by hand                                           *)
(***************************************************************************)

\* One card of set s and PAGE_SIZE cards of set t
ManyCards ==
  LET ids == <<"d1", "d2", "d3", "d4", "d5", "d6", "d7", "d8", "d9", "d10",
               "d11", "d12">>
  IN <<CardA>> \o [i \in 1..PAGE_SIZE |-> [CardB EXCEPT !.id = ids[i]]]

InitPages ==
  /\ visions = {ScannedCard}
  /\ catalog = {<<CardA>>, ManyCards}
  /\ history = FALSE
  /\ libCall = NoCall
  /\ Mounted(ScannedCard)

NextPages ==
  \/ \E value \in Names : EditName(value)
  \/ handleManualSearch
  \/ handleLoadMore
  \/ \E value \in availableSetIds \cup {All} : handleSetFilterChange(value)
  \/ FetchCardsSettles
  \/ AbortedSettles

SpecPages == InitPages /\ [][NextPages]_vars

(***************************************************************************)
(* The query function of useSearchFromVision run on its own, once per      *)
(* language for the same name, number and set id; the catalog gives the    *)
(* runs the same answers                                                   *)
(***************************************************************************)

InitLanguage ==
  /\ visions = {ScannedCard}
  /\ catalog = {<<>>, <<CardA>>, <<CardB, CardA>>}
  /\ history = FALSE
  /\ Mounted(ScannedCard)
  /\ \E name \in Names \cup {<<"q">>},
        number \in Numbers \cup {<<"7">>, <<"7", "/", "9">>, <<"8">>},
        set \in SetIds \cup {<<"t">>} :
       libCall =
         [fn |-> "queryFn",
          runs |-> [l \in Languages |->
                     LET v == [pokemon_name |-> name, card_number |-> number,
                               set_id |-> set, language |-> l]
                     IN [input |-> v, strategy |-> NextStrategy(v, 1),
                         calls |-> <<>>, result |-> Nothing]]]

\* Every run that has not returned goes one step on: it returns "No search
\* criteria" when no strategy is left, else its fetchCards call settles, the
\* same way for all of them, and it returns, throws or tries the next strategy
QueryFnStep ==
  /\ libCall.fn = "queryFn"
  /\ \E l \in Languages : libCall.runs[l].result = Nothing
  /\ LET awaiting == {l \in Languages : /\ libCall.runs[l].result = Nothing
                                        /\ libCall.runs[l].strategy # 0}
         Outcomes(l) ==
           fetchCards(StrategyParams(libCall.runs[l].strategy,
                                     libCall.runs[l].input), catalog)
         thrown == CHOOSE o \in fetchCards(StrategyParams(4, ScannedCard),
                                           catalog) : o.thrown
     IN \E o \in {x \in {thrown} \cup UNION {Outcomes(l) : l \in awaiting} :
                   \A l \in awaiting : x \in Outcomes(l)} :
          libCall' =
            [libCall EXCEPT !.runs =
              [l \in Languages |->
                LET r == libCall.runs[l]
                    v == r.input
                    s == r.strategy
                    next == NextStrategy(v, s + 1)
                    call == [params |-> StrategyParams(s, v),
                             searches |-> o.calls]
                IN IF r.result # Nothing THEN r
                   ELSE IF s = 0
                     THEN [r EXCEPT !.result =
                             Some([thrown |-> FALSE,
                                   value |-> NoSearchCriteria(v)])]
                   ELSE IF o.thrown
                     THEN [r EXCEPT !.calls = Append(@, call),
                                    !.result =
                                      Some([thrown |-> TRUE,
                                            value |-> NoSearchCriteria(v)])]
                   ELSE IF StrategyReturns(s, o)
                     THEN [r EXCEPT !.calls = Append(@, call),
                                    !.result =
                                      Some([thrown |-> FALSE,
                                            value |->
                                              StrategyResult(v, o, clockYear)])]
                   ELSE IF next = 0
                     THEN [r EXCEPT !.calls = Append(@, call),
                                    !.result =
                                      Some([thrown |-> FALSE,
                                            value |-> NoSearchCriteria(v)])]
                   ELSE [r EXCEPT !.calls = Append(@, call),
                                  !.strategy = next]]]
  /\ UNCHANGED <<formVars, clockYear>>

NextLanguage == QueryFnStep

SpecLanguage == InitLanguage /\ [][NextLanguage]_vars

(***************************************************************************)
(* The claims                                                              *)
(***************************************************************************)

\* The run of the query function that settled in the last step, if one did
SettledRun == Get(ev.settled)

\* The last step ended a run of the query function with a returned result
ReturnedRun == IsSome(ev.settled) /\ ~SettledRun.thrown

\* The strategies whose guards hold for v, in the order of the code
ApplicableStrategies(v) == SelectSeq(<<1, 2, 3, 4>>, LAMBDA s : Applicable(s, v))

\* A fetchCards call of a trace came back with at least one card
Hit(call) == ~call.thrown /\ call.success /\ Len(call.cards) > 0

\* A fetchCards call of a trace failed: HTTP error or network error
Failed(call) == call.thrown \/ ~call.success

CardIds(cards) == {cards[i].id : i \in 1..Len(cards)}

\* C1: a run of the query function that returns has executed the applicable
\* strategies in the order 1, 2, 3, 4 and stopped at the first whose call came
\* back with at least one card; what it returns is that call's cards, each
\* scored, sorted by descending score, with no card of another strategy. A run
\* in which no call came back with a card has executed every applicable
\* strategy and returns no scored card.
C1_FirstNonEmptyStrategy ==
  ReturnedRun =>
    LET v == Get(SettledRun.input)
        t == SettledRun.trace
        res == Get(SettledRun.result)
        order == ApplicableStrategies(v)
    IN /\ Len(t) <= Len(order)
       /\ \A i \in 1..Len(t) : t[i].strategy = order[i]
       /\ \A i \in 1..Len(t) : Hit(t[i]) => i = Len(t)
       /\ IF Len(t) > 0 /\ Hit(t[Len(t)])
            THEN /\ res.success
                 /\ res.cards = t[Len(t)].cards
                 /\ Len(res.scoredCards) = Len(res.cards)
                 /\ CardIds(res.scoredCards) = CardIds(res.cards)
                 /\ res.scoredCards =
                      scoreAndSortCards(res.cards,
                                        normalizeCardNumber(v.card_number),
                                        v.pokemon_name, v.set_id, clockYear)
                 /\ \A i \in 1..Len(res.scoredCards) :
                      \A j \in i..Len(res.scoredCards) :
                        res.scoredCards[i].accuracyScore
                          >= res.scoredCards[j].accuracyScore
            ELSE /\ Len(t) = Len(order)
                 /\ res.scoredCards = <<>>

\* C1 witness: strategy 1 came back empty, strategy 2 with two cards, and the
\* run returned them in another order than the catalog's
C1_Witness ==
  /\ ReturnedRun
  /\ Len(SettledRun.trace) = 2
  /\ SettledRun.trace[1].cards = <<>>
  /\ Hit(SettledRun.trace[2])
  /\ Len(Get(SettledRun.result).scoredCards) = 2
  /\ Get(SettledRun.result).scoredCards[1].id
       # Get(SettledRun.result).cards[1].id

\* The traces the state holds: of the run in flight and of the run that
\* settled in the last step
Traces ==
  (IF IsSome(run)
     THEN {[input |-> Get(run).input, trace |-> Get(run).trace]} ELSE {})
  \cup
  (IF IsSome(ev.settled)
     THEN {[input |-> SettledRun.input, trace |-> SettledRun.trace]} ELSE {})

\* C2: in every run the strategies are executed in ascending order, each only
\* when its fields are non-empty, and a catalog search by name alone is made
\* only after every applicable number-based strategy (1, 2, 3) has been
\* executed (the name-only search may follow the number search of its own
\* strategy).
C2_NameOnlySearchLast ==
  \A x \in Traces :
    LET v == Get(x.input)
        t == x.trace
    IN /\ \A i \in 1..Len(t) : Applicable(t[i].strategy, v)
       /\ \A i \in 1..Len(t) : \A j \in 1..Len(t) :
            i < j => t[i].strategy < t[j].strategy
       /\ \A i \in 1..Len(t) : \A c \in 1..Len(t[i].calls) :
            t[i].calls[c] = {"name"} =>
              \A s \in {1, 2, 3} :
                Applicable(s, v) => \E j \in 1..i : t[j].strategy = s

\* C6: a run in which every executed strategy succeeded with zero cards
\* returns success with an empty scoredCards list.
C6_ZeroMatchesIsSuccess ==
  (/\ ReturnedRun
   /\ Len(SettledRun.trace) > 0
   /\ \A i \in 1..Len(SettledRun.trace) :
        /\ SettledRun.trace[i].success
        /\ SettledRun.trace[i].cards = <<>>)
    => /\ Get(SettledRun.result).success
       /\ Get(SettledRun.result).scoredCards = <<>>

\* C7: a run one of whose catalog calls failed (HTTP error or network error)
\* does not throw and returns success = FALSE.
C7_FailureIsReturned ==
  (/\ IsSome(ev.settled)
   /\ \E i \in 1..Len(SettledRun.trace) : Failed(SettledRun.trace[i]))
    => /\ ~SettledRun.thrown
       /\ ~Get(SettledRun.result).success

\* C8: for a query with neither a number nor a name no run ever awaits a
\* catalog call, and the run returns success = FALSE with the error
\* "No search criteria" without having called fetchCards.
C8_NoCriteriaNoCall ==
  /\ IsSome(run) =>
       \/ Get(Get(run).input).pokemon_name # <<>>
       \/ Get(Get(run).input).card_number # <<>>
  /\ (/\ IsSome(ev.settled)
      /\ Get(SettledRun.input).pokemon_name = <<>>
      /\ Get(SettledRun.input).card_number = <<>>)
       => /\ ~SettledRun.thrown
          /\ SettledRun.trace = <<>>
          /\ ~Get(SettledRun.result).success
          /\ Get(SettledRun.result).error = "No search criteria"

\* C8 witness: a run for a query that has a set id only has returned
C8_Witness ==
  /\ ReturnedRun
  /\ Get(SettledRun.input).pokemon_name = <<>>
  /\ Get(SettledRun.input).card_number = <<>>
  /\ Get(SettledRun.input).set_id # <<>>
  /\ activeResult = SettledRun.result

\* C10: when the search of the displayed query has finally failed on a
\* catalog call (the last call of the run failed and no retry is under way),
\* the form shows the error banner with its retry button.
C10_FailedSearchShowsBanner ==
  (/\ IsSome(ev.settled)
   /\ ~IsSome(run)
   /\ SettledRun.input = ActiveInput(Form)
   /\ Len(SettledRun.trace) > 0
   /\ Failed(SettledRun.trace[Len(SettledRun.trace)]))
    => ShowsErrorBanner

\* C3: whatever interleaving of vision results, edits, manual searches, retries
\* and completions of catalog requests led here, the result the form displays
\* was computed for the current query-field tuple.
C3_DisplayedResultIsCurrent ==
  IsSome(activeResult) => Get(activeResult).queriedFor = ActiveInput(Form)

\* C3 witness: the request of a superseded search is still under way, or has
\* just completed, while the form displays the cards of the manual search
\* that superseded it
C3_Witness ==
  /\ abortedInFlight > 0
  /\ isManualSearch
  /\ IsSome(activeResult)
  /\ Get(activeResult).success
  /\ Len(scoredCards) = 1
  /\ ~activeFetching

\* C4: once the user has deselected a card while the results of a query were
\* displayed, no later search for the same query fields auto-selects a card
\* (until a new vision result resets the form).
C4_NoAutoSelectAfterDeselect ==
  ~(ev.autoFired /\ deselectedFor = Some(ActiveKey(Form)))

\* C5: an edit of the name, number or set field never starts a run of the
\* query function that calls the catalog.
C5_EditNeverStartsSearch ==
  ~(ev.type = "edit" /\ ev.fetchStarted /\ IsSome(run))

\* C9 as amended: a query is attempted at most 4 times (the first attempt and
\* up to 3 retries) before it is reported as failed, and it is reported as
\* failed only by its fourth failure; the completion of an aborted attempt
\* changes neither the run in flight nor the state of any cached query (a
\* query without observer may be evicted meanwhile), starts no attempt and
\* settles none, and the attempt that follows a cancellation starts counting
\* at zero.
C9_AtMostFourAttempts ==
  [][/\ IsSome(run') => Get(run').failureCount <= 3
     /\ IsSome(ev'.settled) => Get(ev'.settled).attempts <= 4
     /\ (/\ IsSome(ev'.settled)
         /\ Get(ev'.settled).thrown
         /\ ~IsSome(run'))
          => /\ Get(ev'.settled).attempts = 4
             /\ cache'[queryKey(Get(ev'.settled).input)].status = "error"
     /\ abortedInFlight' < abortedInFlight
          => /\ run' = run
             /\ \A k \in QueryKeys : cache'[k] \in {cache[k], NewQuery}
             /\ cache'[ActiveKey(Form)] = cache[ActiveKey(Form)]
             /\ ActiveKey(Form)' = ActiveKey(Form)
             /\ ~IsSome(ev'.settled)
             /\ ~ev'.fetchStarted
     /\ (abortedInFlight' > abortedInFlight /\ IsSome(run'))
          => Get(run').failureCount = 0]_vars

\* C9 witness: the fourth attempt has failed and the form shows the error
C9_Witness ==
  /\ IsSome(ev.settled)
  /\ SettledRun.thrown
  /\ SettledRun.attempts = 4
  /\ ShowsErrorBanner

\* C9 as stated: a query is attempted at most 3 times in total.
C9_AtMostThreeAttempts ==
  IsSome(ev.settled) => SettledRun.attempts <= 3

\* C11: whenever the identification result passed to the form changes (name,
\* number, set id or language), the form is left with no selected card (none
\* but the one the auto-select effect picks from the new result's own data),
\* both filters empty, page 1 and the already-auto-selected flag false (true
\* only by that same auto-selection)
C11_VisionChangeResets ==
  ev.type = "visionChange" =>
    /\ IsSome(selectedCard) => ev.autoFired
    /\ autoSelectedRef => ev.autoFired
    /\ filterSet = <<>>
    /\ filterRarity = <<>>
    /\ currentPage = 1

\* The sum of the six components of a score breakdown
BreakdownSum(breakdown) ==
  breakdown.numberMatch + breakdown.nameMatch + breakdown.setMatch
    + breakdown.languageBonus + breakdown.priceBonus + breakdown.recencyBonus

\* What calculateAccuracyScore returns for the call's arguments in a year
ScoreIn(year) ==
  calculateAccuracyScore(
    libCall.params.cardNumber, libCall.params.cardName,
    libCall.params.cardSetId, libCall.params.cardReleaseDate,
    libCall.params.hasMarketPrice,
    normalizeCardNumber(libCall.params.queryNumber),
    libCall.params.queryName, libCall.params.querySetId, year)

\* C12: the score calculateAccuracyScore returns is the sum of the six
\* components of the breakdown it returns, and the ScoredCard that
\* scoreAndSortCards builds carries that same score and breakdown
C12_ScoreIsSumOfBreakdown ==
  /\ \A i \in 1..Len(libCall.evaluations) :
       LET result == libCall.evaluations[i].result
       IN result.score = BreakdownSum(result.breakdown)
  /\ \A i \in 1..Len(libCall.scored) :
       LET card == libCall.scored[i].card
           result == ScoreIn(libCall.scored[i].year)
       IN /\ card.accuracyScore = result.score
          /\ card.scoreBreakdown = result.breakdown
          /\ card.accuracyScore = BreakdownSum(card.scoreBreakdown)

C12_Witness ==
  /\ Len(libCall.evaluations) > 0
  /\ Len(libCall.scored) > 0
  /\ LET breakdown == libCall.evaluations[1].result.breakdown
     IN /\ breakdown.numberMatch > 0
        /\ breakdown.nameMatch > 0
        /\ breakdown.setMatch > 0
        /\ breakdown.priceBonus > 0
        /\ breakdown.recencyBonus > 0
  /\ libCall.scored[1].card.accuracyScore
       = libCall.evaluations[1].result.score

\* part occurs in text as a run of consecutive characters
IsSubstring(part, text) ==
  \E i \in 0..Len(text) :
    /\ i + Len(part) <= Len(text)
    /\ \A j \in 1..Len(part) : text[i + j] = part[j]

C14_NameMatchRules ==
  \A i \in 1..Len(libCall.evaluations) :
    LET got == libCall.evaluations[i].result.breakdown.nameMatch
        candidate == trim(toLowerCase(libCall.params.cardName))
        query == trim(toLowerCase(libCall.params.queryName))
    IN CASE query = <<>> -> got = 0
         [] query # <<>> /\ candidate = query -> got = 30
         [] query # <<>> /\ candidate # query /\ IsSubstring(query, candidate) ->
              got = 15
         [] query # <<>> /\ candidate # query /\ ~IsSubstring(query, candidate)
              /\ IsSubstring(candidate, query) -> got = 10
         [] OTHER -> got = 0

\* C15: two evaluations of calculateAccuracyScore with identical arguments
\* return identical score and breakdown, whatever the clock shows at each
C15_ScoreIsDeterministic ==
  \A i, j \in 1..Len(libCall.evaluations) :
    libCall.evaluations[i].result = libCall.evaluations[j].result

\* The year a release date starts with: its first four characters when they
\* are four digits, nothing otherwise
FourDigitYear(date) ==
  IF Len(date) >= 4 /\ \A k \in 1..4 : date[k] \in Digits
    THEN Some(1000 * DigitValue(date[1]) + 100 * DigitValue(date[2])
                + 10 * DigitValue(date[3]) + DigitValue(date[4]))
    ELSE Nothing

\* C16: recencyBonus is 2 when the four-digit release year is at least
\* currentYear-1, otherwise 1 when it is at least currentYear-3, otherwise 0;
\* it is 0 when the release date is absent or does not start with a year
C16_RecencyBonusRules ==
  \A i \in 1..Len(libCall.evaluations) :
    LET got == libCall.evaluations[i].result.breakdown.recencyBonus
        currentYear == libCall.evaluations[i].year
        date == libCall.params.cardReleaseDate
        releaseYear == IF IsSome(date) THEN FourDigitYear(Get(date))
                                       ELSE Nothing
    IN IF ~IsSome(releaseYear) THEN got = 0
       ELSE IF Get(releaseYear) >= currentYear - 1 THEN got = 2
       ELSE IF Get(releaseYear) >= currentYear - 3 THEN got = 1
       ELSE got = 0

\* A set released at the threshold year is scored in two years: it earns 2 in
\* the first and 1 in the next
C16_Witness ==
  /\ Len(libCall.evaluations) = 2
  /\ libCall.params.cardReleaseDate = Some(<<"2", "0", "2", "5", "-", "0">>)
  /\ libCall.evaluations[1].year = 2026
  /\ libCall.evaluations[1].result.breakdown.recencyBonus = 2
  /\ libCall.evaluations[2].result.breakdown.recencyBonus = 1

IsLetter(c) == IsUpper(c) \/ \E i \in 1..Len(Lowers) : Lowers[i] = c

\* C17: for every input, the number normalizeCardNumber returns has no
\* leading zero (apart from the single digit "0") unless it contains a letter
C17_NoLeadingZero ==
  libCall.results # <<>> =>
    LET number == libCall.results[1].number
    IN (Len(number) > 1 /\ number[1] = "0") =>
         \E k \in 1..Len(number) : IsLetter(number[k])

\* C18 (as stated): normalizeCardNumber(normalizeCardNumber(x).full) equals
\* normalizeCardNumber(x) as a whole record
C18_IdempotentAsRecord ==
  Len(libCall.results) = 2 => libCall.results[2] = libCall.results[1]

\* C18 (amended): normalizing the canonical rendering again gives the same
\* number, total, full and hasTotal, and an original that is that rendering
C18_IdempotentButOriginal ==
  Len(libCall.results) = 2 =>
    LET first == libCall.results[1]
        second == libCall.results[2]
    IN /\ second.number = first.number
       /\ second.total = first.total
       /\ second.full = first.full
       /\ second.hasTotal = first.hasTotal
       /\ second.original = first.full

\* A number with a total whose leading zeros were stripped, normalized again
C18_Witness ==
  /\ Len(libCall.results) = 2
  /\ libCall.results[1].hasTotal
  /\ libCall.results[1].original # libCall.results[1].full
  /\ libCall.results[2].original # libCall.results[1].original

\* t is x without its leading and trailing whitespace
IsTrimmed(t, x) ==
  /\ t # <<>> => t[1] \notin Whitespace /\ t[Len(t)] \notin Whitespace
  /\ \E i \in 0..Len(x) :
       /\ i + Len(t) <= Len(x)
       /\ \A k \in 1..Len(x) :
            IF k > i /\ k <= i + Len(t) THEN x[k] = t[k - i]
                                        ELSE x[k] \in Whitespace

Slashes(t) == {k \in 1..Len(t) : t[k] = "/"}

\* C19: hasTotal is true exactly when the trimmed input contains exactly one
\* slash; then total is the part after the slash unchanged and full is
\* number/total; otherwise total is absent and full equals number; original
\* is the trimmed input, and the empty or all-whitespace input yields the
\* empty number and full, no total and hasTotal false
C19_TotalOriginalAndEmpty ==
  libCall.results # <<>> =>
    LET result == libCall.results[1]
        t == result.original
    IN /\ IsTrimmed(t, libCall.input)
       /\ result.hasTotal <=> Cardinality(Slashes(t)) = 1
       /\ IF Cardinality(Slashes(t)) = 1
            THEN LET k == CHOOSE i \in Slashes(t) : TRUE
                 IN /\ result.total = Some(SubSeq(t, k + 1, Len(t)))
                    /\ result.full
                         = result.number \o <<"/">> \o Get(result.total)
            ELSE /\ result.total = Nothing
                 /\ result.full = result.number
       /\ t = <<>> =>
            /\ result.number = <<>>
            /\ result.full = <<>>
            /\ result.total = Nothing
            /\ ~result.hasTotal

\* An input with whitespace around a number and a total
C19_Witness ==
  /\ libCall.results # <<>>
  /\ libCall.input # libCall.results[1].original
  /\ libCall.results[1].hasTotal
  /\ libCall.results[1].number # <<>>
  /\ libCall.results[1].total # Some(<<>>)

\* The score a sorted element carries
ScoreOf(x) ==
  IF libCall.fn = "sortByAccuracy" THEN x.score ELSE x.accuracyScore

\* The input element a sorted element was made from
InputOf(x) ==
  IF libCall.fn = "sortByAccuracy" THEN x
  ELSE [id |-> x.id, name |-> x.name, number |-> x.number,
        rarity |-> x.rarity, set |-> x.set, prices |-> x.prices]

\* C20: in the sorted output of scoreAndSortCards and of sortByAccuracy a
\* card with a greater score appears before every card with a smaller one,
\* and the output is a permutation of the input
C20_SortedByScorePermutation ==
  (libCall.fn \in {"sortByAccuracy", "scoreAndSortCards"}
     /\ IsSome(libCall.sorted)) =>
    LET sorted == Get(libCall.sorted)
        n == Len(libCall.cards)
    IN /\ \A i, j \in 1..Len(sorted) :
            ScoreOf(sorted[i]) > ScoreOf(sorted[j]) => i < j
       /\ Len(sorted) = n
       /\ \E p \in [1..n -> 1..n] :
            /\ \A i, j \in 1..n : p[i] = p[j] => i = j
            /\ \A i \in 1..n : InputOf(sorted[i]) = libCall.cards[p[i]]

\* Three cards given with the best match last come out with it first
C20_Witness ==
  /\ libCall.fn = "scoreAndSortCards"
  /\ IsSome(libCall.sorted)
  /\ Len(libCall.cards) = 3
  /\ LET sorted == Get(libCall.sorted)
     IN /\ sorted[1].accuracyScore > sorted[2].accuracyScore
        /\ sorted[2].accuracyScore = sorted[3].accuracyScore
        /\ InputOf(sorted[1]) = libCall.cards[3]
        /\ InputOf(sorted[3]) = libCall.cards[1]

\* The release date a sorted element carries, Nothing when it is missing
DateOf(x) ==
  IF libCall.fn = "sortByAccuracy" THEN x.releaseDate
  ELSE Some(x.set.releaseDate)

\* date a is not older than date b; a missing date is the oldest
NotOlder(a, b) ==
  \/ b = Nothing
  \/ a # Nothing /\ localeCompare(Get(a), Get(b)) >= 0

\* C21: among cards of equal score the sorted output goes from the newest
\* release date to the oldest, a card with a missing release date after every
\* card of its score that has one, and cards of equal score and equal release
\* date stay in their input order
C21_TiesByReleaseDate ==
  (libCall.fn \in {"sortByAccuracy", "scoreAndSortCards"}
     /\ IsSome(libCall.sorted)) =>
    LET sorted == Get(libCall.sorted)
        SameClass(x, y) ==
          ScoreOf(x) = ScoreOf(y) /\ DateOf(x) = DateOf(y)
    IN /\ \A i, j \in 1..Len(sorted) :
            (i < j /\ ScoreOf(sorted[i]) = ScoreOf(sorted[j])) =>
              NotOlder(DateOf(sorted[i]), DateOf(sorted[j]))
       /\ \A k \in 1..Len(sorted) :
            LET InOutput(x) == SameClass(x, sorted[k])
                InInput(c) ==
                  \E m \in 1..Len(sorted) :
                    InputOf(sorted[m]) = c /\ SameClass(sorted[m], sorted[k])
                output == SelectSeq(sorted, InOutput)
            IN [m \in 1..Len(output) |-> InputOf(output[m])]
                 = SelectSeq(libCall.cards, InInput)

\* The least number of pages of size pageSize that hold length cards
Ceil(length, pageSize) ==
  CHOOSE t \in 0..length :
    t * pageSize >= length /\ \A u \in 0..(t - 1) : u * pageSize < length

\* C22: for every list, pageSize >= 1 and page >= 1, paginateCards returns
\* the slice [(page-1)*pageSize, page*pageSize) of the list, hasMore true
\* exactly when page*pageSize is less than the length, and totalPages
\* ceil(length/pageSize); a page beyond the end is empty with hasMore false
C22_PageIsSlice ==
  libCall.fn = "paginateCards" =>
    \A page \in 1..Len(libCall.pages) :
      LET got == libCall.pages[page]
          cards == libCall.cards
          from == (page - 1) * libCall.pageSize
          to == page * libCall.pageSize
          inSlice == {i \in 1..Len(cards) : from < i /\ i <= to}
      IN /\ Len(got.items) = Cardinality(inSlice)
         /\ \A i \in inSlice : got.items[i - from] = cards[i]
         /\ got.hasMore <=> to < Len(cards)
         /\ got.totalPages = Ceil(Len(cards), libCall.pageSize)
         /\ from >= Len(cards) => got.items = <<>> /\ ~got.hasMore

\* A full page with more to come, then a page beyond the end
C22_Witness ==
  /\ libCall.fn = "paginateCards"
  /\ libCall.pages # <<>>
  /\ Len(libCall.pages) > libCall.pages[1].totalPages
  /\ libCall.pages[1].hasMore
  /\ Len(libCall.pages[1].items) = libCall.pageSize
  /\ libCall.pages[Len(libCall.pages)].items = <<>>

\* The items of the first n pages, one page after the other
RECURSIVE ConcatPages(_, _)
ConcatPages(pages, n) ==
  IF n = 0 THEN <<>> ELSE ConcatPages(pages, n - 1) \o pages[n].items

\* C28: the pages 1..totalPages of a list, concatenated, are the list in its
\* order, and hasMore is true exactly for the pages before the last
C28_PagesPartitionList ==
  (libCall.fn = "paginateCards" /\ libCall.pages # <<>>) =>
    LET totalPages == libCall.pages[1].totalPages
    IN /\ Len(libCall.pages) >= totalPages =>
            ConcatPages(libCall.pages, totalPages) = libCall.cards
       /\ \A page \in 1..Len(libCall.pages) :
            libCall.pages[page].hasMore <=> page < totalPages

\* A list cut into several pages, the last one not full
C28_Witness ==
  /\ libCall.fn = "paginateCards"
  /\ libCall.pages # <<>>
  /\ libCall.pages[1].totalPages > 1
  /\ Len(libCall.pages) = libCall.pages[1].totalPages
  /\ Len(libCall.pages[Len(libCall.pages)].items) < libCall.pageSize
  /\ ConcatPages(libCall.pages, Len(libCall.pages)) = libCall.cards

\* The market prices of a card's table in the order holofoil, reverse
\* holofoil, normal, the missing ones left out
PresentPrices(card) ==
  IF card.prices = Nothing THEN <<>>
  ELSE Get(card.prices).holofoil \o Get(card.prices).reverseHolofoil
         \o Get(card.prices).normal

\* C23: getCardMarketPrice returns the market price of the first finish, in
\* the order holofoil, reverse holofoil, normal, that has one, and no price
\* when none has; priceBonus is 3 exactly when it returns a price, a price of
\* 0 included
C23_FirstPresentMarketPrice ==
  libCall.fn = "getCardMarketPrice" =>
    LET present == PresentPrices(libCall.card)
    IN /\ \A i \in 1..Len(libCall.price) :
            libCall.price[i] =
              IF present = <<>> THEN Nothing ELSE Some(present[1])
       /\ \A i \in 1..Len(libCall.scored) :
            libCall.scored[i].scoreBreakdown.priceBonus =
              IF present = <<>> THEN 0 ELSE 3

\* No holofoil price, a reverse holofoil price of 0 and a normal price: 0 is
\* returned and the bonus is earned
C23_Witness ==
  /\ libCall.fn = "getCardMarketPrice"
  /\ libCall.card.prices # Nothing
  /\ Get(libCall.card.prices).holofoil = Nothing
  /\ Get(libCall.card.prices).reverseHolofoil = Some(0)
  /\ Get(libCall.card.prices).normal = Some(3)
  /\ libCall.price = <<Some(0)>>
  /\ libCall.scored # <<>>
  /\ libCall.scored[1].scoreBreakdown.priceBonus = 3

\* C24: extractUniqueSets returns exactly one {id, name} entry per distinct
\* set id of the input cards, its name that of the first card seen with the
\* id, the entries ordered by name ascending; no cards give no entries
C24_UniqueSetsByName ==
  (libCall.fn = "extractUniqueSets" /\ IsSome(libCall.sets)) =>
    LET sets == Get(libCall.sets)
        cards == libCall.cards
    IN /\ \A i, j \in 1..Len(sets) : sets[i].id = sets[j].id => i = j
       /\ {sets[i].id : i \in 1..Len(sets)}
            = {cards[i].set.id : i \in 1..Len(cards)}
       /\ \A i \in 1..Len(sets) :
            LET first == CHOOSE m \in 1..Len(cards) :
                           /\ cards[m].set.id = sets[i].id
                           /\ \A n \in 1..(m - 1) :
                                cards[n].set.id # sets[i].id
            IN sets[i].name = cards[first].set.name
       /\ \A i, j \in 1..Len(sets) :
            i < j => localeCompare(sets[i].name, sets[j].name) <= 0
       /\ cards = <<>> => sets = <<>>

\* A set seen under two names, and a set whose name sorts before it although
\* it was seen later
C24_Witness ==
  /\ libCall.fn = "extractUniqueSets"
  /\ IsSome(libCall.sets)
  /\ Len(libCall.cards) = 3
  /\ libCall.cards[1].set.id = libCall.cards[2].set.id
  /\ libCall.cards[1].set.name # libCall.cards[2].set.name
  /\ Len(Get(libCall.sets)) = 2
  /\ Get(libCall.sets)[2] = libCall.cards[1].set

\* C25: in every reachable state of the form a selected card, if there is
\* one, is among the scored cards of the active search result
C25_SelectedCardIsDisplayed ==
  IsSome(selectedCard) =>
    \E i \in 1..Len(scoredCards) : scoredCards[i].id = Get(selectedCard).id

\* C26: the number of cards rendered in the results grid equals the count
\* the form reports as shown, min(currentPage * 12, number of filtered cards)
C26_GridShowsReportedCount ==
  ShowsResults => Len(paginatedResult.items) = showing

\* C27: whenever the filtered result list is not empty, the current page
\* lies between 1 and the totalPages of that list
C27_PageWithinTotalPages ==
  hasResults =>
    currentPage >= 1 /\ currentPage <= paginatedResult.totalPages

Returned(result) ==
  [thrown |-> result.thrown, success |-> result.value.success,
   cards |-> result.value.cards, scoredCards |-> result.value.scoredCards,
   error |-> result.value.error]

====
